---- MODULE Spec2Model ----
(***************************************************************************)
(* DOF-map construction of the scalar function spaces of bempp-cl          *)
(* (bempp/api/space/scalar_spaces.py): the piecewise constant space, the   *)
(* discontinuous piecewise linear space and the continuous piecewise       *)
(* linear space with its two-pass routine _compute_p1_dof_map.             *)
(*                                                                         *)
(* Arrays are functions over 0-based index ranges, as in the source.  The  *)
(* Python list elements_in_support is a sequence; `position` is the        *)
(* 1-based position of the list iterator.                                  *)
(***************************************************************************)
EXTENDS Integers, Sequences, FiniteSets, TLC

\* ---------------------------------------------------------------- bounds
\* Largest number_of_vertices / number_of_elements of the meshes explored.
MaxVertices == 5
MaxElements == 3
\* Capacity of the working list: a list that outgrows it exhausts memory.
MaxWork == 7

VARIABLES
    identifier,               \* which space is being constructed
    number_of_vertices,       \* grid_data.vertices.shape[1]
    elements,                 \* elements[e][l] is grid_data.elements[l, e]
    support,                  \* boolean mask over the elements
    include_boundary_dofs,
    ensure_global_continuity,
    pc,                       \* position in the construction
    elements_in_support,      \* the working list
    position,                 \* iterator of `for element_index in elements_in_support`
    local_index,              \* iterator of `for local_index in range(3)` (first pass)
    local2global,             \* provisional map: vertex index or -1
    vertex_is_dof,
    dofs,                     \* vertex index -> dof index, -1 if none
    global_dof_count,
    support_final,
    local2global_final,       \* the map handed to the space
    local_multipliers

vars == <<identifier, number_of_vertices, elements, support, include_boundary_dofs,
          ensure_global_continuity, pc, elements_in_support, position, local_index,
          local2global, vertex_is_dof, dofs, global_dof_count, support_final,
          local2global_final, local_multipliers>>

inputs == <<identifier, number_of_vertices, elements, support, include_boundary_dofs,
            ensure_global_continuity>>

\* ------------------------------------------------------------- the grid
Corners(a, b, c) == [l \in 0..2 |-> IF l = 0 THEN a ELSE IF l = 1 THEN b ELSE c]

\* The k-th triangle of a consistently oriented strip on the vertices
\* 0, 1, 2, ...: (0,1,2), (2,1,3), (2,3,4), (4,3,5), ...  The same vertex
\* sits in different local slots of different elements.
StripTriangle(k) ==
    IF k % 2 = 0 THEN Corners(k, k + 1, k + 2) ELSE Corners(k + 1, k, k + 2)

\* The triangles a grid of nv vertices draws its elements from.
Triangles(nv) == { StripTriangle(k) : k \in 0..(nv - 3) }

NumElements(els) == Cardinality(DOMAIN els)

\* np.flatnonzero(mask): the indices set in mask, ascending.
RECURSIVE FlatNonzeroFrom(_, _, _)
FlatNonzeroFrom(mask, i, n) ==
    IF i >= n THEN <<>>
    ELSE (IF mask[i] THEN <<i>> ELSE <<>>) \o FlatNonzeroFrom(mask, i + 1, n)

flatnonzero(mask) == FlatNonzeroFrom(mask, 0, Cardinality(DOMAIN mask))

Range(s) == { s[i] : i \in 1..Len(s) }

\* vertex_neighbors[index_ptr[vertex] : index_ptr[vertex + 1]]: the elements
\* appended for `vertex` while scanning elements 0, 1, ... and their corners
\* 0, 1, 2 in order (one entry per corner equal to the vertex).
RECURSIVE NeighborsFrom(_, _, _)
NeighborsFrom(els, vertex, k) ==
    IF k >= 3 * NumElements(els) THEN <<>>
    ELSE (IF els[k \div 3][k % 3] = vertex THEN <<k \div 3>> ELSE <<>>)
             \o NeighborsFrom(els, vertex, k + 1)

vertex_neighbors(els, vertex) == NeighborsFrom(els, vertex, 0)

\* find_index: first position of value in array, -1 if absent.
find_index(array, value) ==
    IF \E i \in DOMAIN array : array[i] = value
    THEN CHOOSE i \in DOMAIN array :
             array[i] = value /\ \A j \in DOMAIN array : array[j] = value => i <= j
    ELSE -1

\* A negative index into a row of three counts from its end.
RowIndex(i) == IF i < 0 THEN i + 3 ELSE i

\* ------------------------------------------- discontinuous spaces (P0, P1)
\* Row of element e in a boolean-mask assignment a[mask] = rows: the number
\* of selected elements before e.
MaskRow(mask, e) == Cardinality({ i \in DOMAIN mask : mask[i] /\ i < e })

\* local2global of p0_discontinuous_function_space: zeros, then
\* local2global[support] = expand_dims(arange(support_size), 1).
P0Local2Global(sup) ==
    [e \in DOMAIN sup |-> [l \in 0..0 |-> IF sup[e] THEN MaskRow(sup, e) ELSE 0]]

\* Variant: the rows of consecutive support elements overlap.
P1DiscRow_Overlap(k) == [l \in 0..2 |-> k + l]

\* Row k of arange(3 * support_size).reshape(support_size, 3).
P1DiscRow(k) == [l \in 0..2 |-> 3 * k + l]

\* local2global of p1_discontinuous_function_space.
P1DiscLocal2Global(sup) ==
    [e \in DOMAIN sup |->
        IF sup[e] THEN P1DiscRow(MaskRow(sup, e)) ELSE [l \in 0..2 |-> 0]]

\* local_multipliers: zeros of width n, then local_multipliers[support] = 1.
SupportMultipliers(sup, n) ==
    [e \in DOMAIN sup |-> [l \in 0..(n - 1) |-> IF sup[e] THEN 1 ELSE 0]]

\* ------------------------------------------- _compute_p1_dof_map, first pass
\* elements_in_support as built at the top of _compute_p1_dof_map.
InitialWorkList(sup) == flatnonzero(sup)

\* non_support_neighbors = [n for n in neighbors if not support[n]]
non_support_neighbors(els, sup, vertex) ==
    SelectSeq(vertex_neighbors(els, vertex), LAMBDA n : ~sup[n])

\* Variant: every corner of a processed element becomes a dof.
AddsDof_Always(ibd, nsn) == TRUE

\* `if include_boundary_dofs or len(non_support_neighbors) == 0`
AddsDof(ibd, nsn) == ibd \/ Len(nsn) = 0

\* Variant: the extension does not test include_boundary_dofs.
ExtendsSupport_NoBoundaryTest(ibd, egc, nsn) == Len(nsn) > 0 /\ egc

\* `if len(non_support_neighbors) > 0 and ensure_global_continuity and
\*  include_boundary_dofs`
ExtendsSupport(ibd, egc, nsn) == Len(nsn) > 0 /\ egc /\ ibd

\* Lines 140-143 for the corner l of element e: the provisional map and
\* the vertex flags once the corner's own dof has been recorded.
FirstPassAdd(els, sup, ibd, l2g, vid, e, l) ==
    LET vertex == els[e][l]
        add == AddsDof(ibd, non_support_neighbors(els, sup, vertex))
    IN [l2g |-> IF add THEN [l2g EXCEPT ![e][l] = vertex] ELSE l2g,
        vid |-> IF add THEN [vid EXCEPT ![vertex] = TRUE] ELSE vid]

\* Body of the inner loop of the first pass, for the corner local_index of
\* element_index: the working list, provisional map and vertex flags after it.
FirstPassBody(els, sup, ibd, egc, w, l2g, vid, e, l) ==
    LET vertex == els[e][l]
        nsn == non_support_neighbors(els, sup, vertex)
        ext == ExtendsSupport(ibd, egc, nsn)
        a == FirstPassAdd(els, sup, ibd, l2g, vid, e, l)
        l2g2 == IF ext
                THEN [en \in DOMAIN a.l2g |->
                         IF en \in Range(nsn)
                         THEN [a.l2g[en] EXCEPT ![RowIndex(find_index(els[en], vertex))] = vertex]
                         ELSE a.l2g[en]]
                ELSE a.l2g
    IN [w |-> IF ext THEN w \o nsn ELSE w, l2g |-> l2g2, vid |-> a.vid]

\* ----------------------------------------- compaction and the second pass
\* Variant: the vertex index itself is used as the dof index.
CompactDofs_Identity(vid) == [v \in DOMAIN vid |-> IF vid[v] THEN v ELSE -1]

\* dofs = -ones(number_of_vertices); dofs[flatnonzero(vertex_is_dof)] = arange(count)
CompactDofs(vid) == [v \in DOMAIN vid |-> IF vid[v] THEN MaskRow(vid, v) ELSE -1]

\* global_dof_count = len(flatnonzero(vertex_is_dof))
DofCount(vid) == Len(flatnonzero(vid))

\* Variant: unused slots keep the sentinel.
MinDof_Sentinel(row) == -1

\* np.min over the three entries of a row of local2global_final.
MinDof(row) == CHOOSE m \in { row[l] : l \in 0..2 } : \A l \in 0..2 : m <= row[l]

\* Body of the second-pass loop for one element: the row of
\* local2global_final and of local_multipliers and the support_final flag.
SecondPassBody(l2g, d, fin, mult, sf, e) ==
    LET used(l) == l2g[e][l] # -1
        row1 == [l \in 0..2 |-> IF used(l) THEN d[l2g[e][l]] ELSE fin[e][l]]
        min_dof == MinDof(row1)
    IN [fin  |-> [fin EXCEPT ![e] = [l \in 0..2 |-> IF used(l) THEN row1[l] ELSE min_dof]],
        mult |-> [mult EXCEPT ![e] = [l \in 0..2 |-> IF used(l) THEN 1 ELSE mult[e][l]]],
        sf   |-> [sf EXCEPT ![e] = sf[e] \/ \E l \in 0..2 : used(l)]]

\* ------------------------------------- _compute_p1_dof_map as a function
\* The arrays allocated before the first pass.
NoVertex(els) == [e \in DOMAIN els |-> [l \in 0..2 |-> -1]]
NoDof(nv) == [v \in 0..(nv - 1) |-> FALSE]
\* Variant: the final arrays start as ones.
ZeroRows_Ones(els) == [e \in DOMAIN els |-> [l \in 0..2 |-> 1]]

\* The arrays allocated before the second pass.
ZeroRows(els) == [e \in DOMAIN els |-> [l \in 0..2 |-> 0]]
NoSupport(els) == [e \in DOMAIN els |-> FALSE]

\* The first pass from list position pos, corner l, up to its end; it stops
\* as "exhausted" at the extension (line 146) that outgrows MaxWork, after
\* the writes of lines 142-143 of that iteration.
RECURSIVE FirstPassFrom(_, _, _, _, _, _, _, _, _)
FirstPassFrom(els, sup, ibd, egc, w, l2g, vid, pos, l) ==
    IF pos > Len(w) THEN [status |-> "ok", w |-> w, l2g |-> l2g, vid |-> vid]
    ELSE LET r == FirstPassBody(els, sup, ibd, egc, w, l2g, vid, w[pos], l)
         IN IF Len(r.w) > MaxWork
            THEN LET a == FirstPassAdd(els, sup, ibd, l2g, vid, w[pos], l)
                 IN [status |-> "exhausted", w |-> w, l2g |-> a.l2g, vid |-> a.vid]
            ELSE FirstPassFrom(els, sup, ibd, egc, r.w, r.l2g, r.vid,
                               IF l = 2 THEN pos + 1 ELSE pos,
                               IF l = 2 THEN 0 ELSE l + 1)

\* The second pass from list position pos up to the end of the list.
RECURSIVE SecondPassFrom(_, _, _, _, _, _, _)
SecondPassFrom(l2g, d, fin, mult, sf, w, pos) ==
    IF pos > Len(w) THEN [fin |-> fin, mult |-> mult, sf |-> sf]
    ELSE LET r == SecondPassBody(l2g, d, fin, mult, sf, w[pos])
         IN SecondPassFrom(l2g, d, r.fin, r.mult, r.sf, w, pos + 1)

\* _compute_p1_dof_map(grid_data, support, include_boundary_dofs,
\* ensure_global_continuity, ...): what it returns, with the final working
\* list and the dof count; status "exhausted" when it does not return.
ComputeP1DofMap(nv, els, sup, ibd, egc) ==
    LET p1 == FirstPassFrom(els, sup, ibd, egc, InitialWorkList(sup),
                            NoVertex(els), NoDof(nv), 1, 0)
        p2 == SecondPassFrom(p1.l2g, CompactDofs(p1.vid), ZeroRows(els), ZeroRows(els),
                             NoSupport(els), p1.w, 1)
    IN IF p1.status = "exhausted"
       THEN [status |-> "exhausted"]
       ELSE [status |-> "ok", local2global_final |-> p2.fin, local_multipliers |-> p2.mult,
             elements_in_support |-> p1.w, global_dof_count |-> DofCount(p1.vid)]

\* ---------------------------------------------------------------- states
Spaces == {"p0_discontinuous", "p1_discontinuous", "p1_continuous"}

\* A construction call on a grid of at most maxv vertices and maxe
\* elements, any support mask and, for the continuous space, any flags.
InitOn(maxv, maxe) ==
    /\ identifier \in Spaces
    /\ number_of_vertices \in 3..maxv
    /\ \E ne \in 1..maxe :
          /\ elements \in [0..(ne - 1) -> Triangles(number_of_vertices)]
          /\ support \in [0..(ne - 1) -> BOOLEAN]
    /\ include_boundary_dofs \in (IF identifier = "p1_continuous" THEN BOOLEAN ELSE {FALSE})
    /\ ensure_global_continuity \in (IF identifier = "p1_continuous" THEN BOOLEAN ELSE {FALSE})
    /\ pc = "start"
    /\ elements_in_support = <<>>
    /\ position = 1
    /\ local_index = 0
    /\ local2global = NoVertex(elements)
    /\ vertex_is_dof = NoDof(number_of_vertices)
    /\ dofs = [v \in 0..(number_of_vertices - 1) |-> -1]
    /\ global_dof_count = 0
    /\ support_final = NoSupport(elements)
    /\ local2global_final = ZeroRows(elements)
    /\ local_multipliers = ZeroRows(elements)

Init == InitOn(MaxVertices, MaxElements)

\* p0_discontinuous_function_space: the map and the multipliers.
P0Build ==
    /\ pc = "start" /\ identifier = "p0_discontinuous"
    /\ local2global_final' = P0Local2Global(support)
    /\ local_multipliers' = SupportMultipliers(support, 1)
    /\ elements_in_support' = flatnonzero(support)
    /\ pc' = "done"
    /\ UNCHANGED <<inputs, position, local_index, local2global, vertex_is_dof, dofs,
                   global_dof_count, support_final>>

\* p1_discontinuous_function_space: the map and the multipliers.
P1DiscBuild ==
    /\ pc = "start" /\ identifier = "p1_discontinuous"
    /\ local2global_final' = P1DiscLocal2Global(support)
    /\ local_multipliers' = SupportMultipliers(support, 3)
    /\ elements_in_support' = flatnonzero(support)
    /\ pc' = "done"
    /\ UNCHANGED <<inputs, position, local_index, local2global, vertex_is_dof, dofs,
                   global_dof_count, support_final>>

\* p1_continuous_function_space enters _compute_p1_dof_map: the working
\* list and the arrays of the first pass.
P1Enter ==
    /\ pc = "start" /\ identifier = "p1_continuous"
    /\ elements_in_support' = InitialWorkList(support)
    /\ local2global' = NoVertex(elements)
    /\ vertex_is_dof' = NoDof(number_of_vertices)
    /\ position' = 1
    /\ local_index' = 0
    /\ pc' = "first_pass"
    /\ UNCHANGED <<inputs, dofs, global_dof_count, support_final, local2global_final,
                   local_multipliers>>

\* One corner of one element of the working list in the first pass.
FirstPassStep ==
    /\ pc = "first_pass" /\ position <= Len(elements_in_support)
    /\ LET r == FirstPassBody(elements, support, include_boundary_dofs,
                              ensure_global_continuity, elements_in_support, local2global,
                              vertex_is_dof, elements_in_support[position], local_index)
       IN /\ Len(r.w) <= MaxWork
          /\ elements_in_support' = r.w
          /\ local2global' = r.l2g
          /\ vertex_is_dof' = r.vid
    /\ position' = (IF local_index = 2 THEN position + 1 ELSE position)
    /\ local_index' = (IF local_index = 2 THEN 0 ELSE local_index + 1)
    /\ UNCHANGED <<inputs, pc, dofs, global_dof_count, support_final, local2global_final,
                   local_multipliers>>

\* The extension of the working list at line 146 outgrows the memory
\* available to it: the corner's own dof has been recorded (lines 142-143),
\* the list is not extended and the call never returns a map.
FirstPassExhaust ==
    /\ pc = "first_pass" /\ position <= Len(elements_in_support)
    /\ LET r == FirstPassBody(elements, support, include_boundary_dofs,
                              ensure_global_continuity, elements_in_support, local2global,
                              vertex_is_dof, elements_in_support[position], local_index)
           a == FirstPassAdd(elements, support, include_boundary_dofs, local2global,
                             vertex_is_dof, elements_in_support[position], local_index)
       IN /\ Len(r.w) > MaxWork
          /\ local2global' = a.l2g
          /\ vertex_is_dof' = a.vid
    /\ pc' = "exhausted"
    /\ UNCHANGED <<inputs, elements_in_support, position, local_index, dofs,
                   global_dof_count, support_final, local2global_final, local_multipliers>>

\* The first pass has reached the end of the list: allocate the final
\* arrays and number the vertices that carry a dof.
Compact ==
    /\ pc = "first_pass" /\ position > Len(elements_in_support)
    /\ support_final' = NoSupport(elements)
    /\ local2global_final' = ZeroRows(elements)
    /\ local_multipliers' = ZeroRows(elements)
    /\ dofs' = CompactDofs(vertex_is_dof)
    /\ global_dof_count' = DofCount(vertex_is_dof)
    /\ position' = 1
    /\ pc' = "second_pass"
    /\ UNCHANGED <<inputs, elements_in_support, local_index, local2global, vertex_is_dof>>

\* One element of the working list in the second pass.
SecondPassStep ==
    /\ pc = "second_pass" /\ position <= Len(elements_in_support)
    /\ LET r == SecondPassBody(local2global, dofs, local2global_final, local_multipliers,
                               support_final, elements_in_support[position])
       IN /\ local2global_final' = r.fin
          /\ local_multipliers' = r.mult
          /\ support_final' = r.sf
    /\ position' = position + 1
    /\ UNCHANGED <<inputs, pc, elements_in_support, local_index, local2global,
                   vertex_is_dof, dofs, global_dof_count>>

\* `return local2global_final, local_multipliers`
Return ==
    /\ pc = "second_pass" /\ position > Len(elements_in_support)
    /\ pc' = "done"
    /\ UNCHANGED <<inputs, elements_in_support, position, local_index, local2global,
                   vertex_is_dof, dofs, global_dof_count, support_final,
                   local2global_final, local_multipliers>>

Next ==
    \/ P0Build
    \/ P1DiscBuild
    \/ P1Enter
    \/ FirstPassStep
    \/ FirstPassExhaust
    \/ Compact
    \/ SecondPassStep
    \/ Return

Spec == Init /\ [][Next]_vars

\* ------------------------------------------------------------ properties
Continuous == identifier = "p1_continuous"
Elements == DOMAIN elements
Vertices == 0..(number_of_vertices - 1)
\* The elements that have vertex v among their corners.
Incident(v) == { e \in Elements : \E l \in 0..2 : elements[e][l] = v }
FullSupport == \A e \in Elements : support[e]
CornerOfSupport(v) == \E e \in Incident(v) : support[e]
\* Slots of element e that the first pass assigned a vertex.
Assigned(e) == { l \in 0..2 : local2global[e][l] # -1 }
Processed == Range(elements_in_support)
\* Position of v among the vertices of the set V, in ascending order.
IndexIn(V, v) == Cardinality({ u \in V : u < v })

\* C1: the first pass over the growing working list terminates for every
\* mesh, support mask and flag combination: the list never grows without
\* end, so the construction is never cut off before it returns a map.
C1_TraversalTerminates == pc # "exhausted"

\* C2: with both flags true the construction ends, and then every element
\* incident to a corner v of a support element holds the compacted index of
\* v, with multiplier 1, in the slot whose corner is v.
C2_SharedDofOnAllIncident ==
    (Continuous /\ include_boundary_dofs /\ ensure_global_continuity
        /\ pc \in {"done", "exhausted"})
    => /\ pc = "done"
       /\ \A v \in Vertices : CornerOfSupport(v) =>
             \A e \in Incident(v) : \A l \in 0..2 :
                elements[e][l] = v =>
                   /\ local2global_final[e][l] = IndexIn({ u \in Vertices : vertex_is_dof[u] }, v)
                   /\ local_multipliers[e][l] = 1

\* C3 as claimed: without boundary dofs the dof count is the number of
\* vertices in [0, number_of_vertices) whose incident elements are all in
\* the support.
C3_CountAllVertices ==
    (Continuous /\ ~include_boundary_dofs /\ pc = "done")
    => global_dof_count
         = Cardinality({ v \in Vertices : \A e \in Incident(v) : support[e] })

\* C3 amended: without boundary dofs the construction returns and the dof
\* count is the number of vertices that have at least one incident element
\* and whose incident elements are all in the support.
C3_CountInteriorVertices ==
    (Continuous /\ ~include_boundary_dofs)
    => /\ pc # "exhausted"
       /\ pc = "done" =>
            /\ global_dof_count
                 = Cardinality({ v \in Vertices :
                                   Incident(v) # {} /\ \A e \in Incident(v) : support[e] })
            /\ global_dof_count = Cardinality({ v \in Vertices : vertex_is_dof[v] })

C3_Witness ==
    /\ Continuous /\ ~include_boundary_dofs /\ pc = "done"
    /\ \E v \in Vertices : Incident(v) = {}
    /\ \E v \in Vertices : \E e, f \in Incident(v) : support[e] /\ ~support[f]
    /\ global_dof_count >= 1

\* C4: on a mesh whose elements are all in the support the continuous
\* construction returns, every vertex referenced by an element gets exactly
\* one dof (4 dofs on the two triangles {0,1,2}, {1,2,3}), every row holds
\* the dofs of the element's corners in corner order, and every multiplier
\* is 1.
C4_FullSupport ==
    (Continuous /\ FullSupport)
    => /\ pc # "exhausted"
       /\ pc = "done" =>
            LET Referenced == { v \in Vertices : Incident(v) # {} }
            IN /\ global_dof_count = Cardinality(Referenced)
               /\ \A e \in Elements : \A l \in 0..2 :
                     /\ local2global_final[e][l] = IndexIn(Referenced, elements[e][l])
                     /\ local2global_final[e][l] < global_dof_count
                     /\ local_multipliers[e][l] = 1
               /\ (/\ number_of_vertices = 4
                   /\ Elements = 0..1
                   /\ { elements[0][l] : l \in 0..2 } = {0, 1, 2}
                   /\ { elements[1][l] : l \in 0..2 } = {1, 2, 3})
                  => global_dof_count = 4

C4_Witness ==
    /\ Continuous /\ FullSupport /\ ~include_boundary_dofs /\ pc = "done"
    /\ number_of_vertices = 4
    /\ elements = (0 :> Corners(0, 1, 2) @@ 1 :> Corners(2, 1, 3))
    /\ global_dof_count = 4
    /\ local2global_final = (0 :> Corners(0, 1, 2) @@ 1 :> Corners(2, 1, 3))

\* C5: after _compute_p1_dof_map returns, every element with a slot of
\* multiplier 1 has all three entries in [0, global_dof_count), and every
\* multiplier is 0 or 1.
C5_ValidIndices ==
    (Continuous /\ pc = "done")
    => \A e \in Elements :
          /\ \A l \in 0..2 : local_multipliers[e][l] \in {0, 1}
          /\ (\E l \in 0..2 : local_multipliers[e][l] = 1)
                => \A l \in 0..2 : local2global_final[e][l] \in 0..(global_dof_count - 1)

C5_Witness ==
    /\ Continuous /\ pc = "done" /\ global_dof_count >= 2
    /\ \E e \in Elements : \E l, m \in 0..2 :
          /\ local_multipliers[e][l] = 1
          /\ local_multipliers[e][m] = 0
          /\ local2global_final[e][m] \in 0..(global_dof_count - 1)

\* C6: in the P0 and the discontinuous P1 space the support elements, in
\* ascending order, receive consecutive fresh dof indices starting at 0 (1
\* or 3 per element), every index below support_size * local_dofs is held by
\* exactly one (element, slot) pair with multiplier 1, and a non-support
\* element has entries 0 with multiplier 0.
C6_ConsecutiveFreshDofs ==
    (~Continuous /\ pc = "done")
    => LET n == IF identifier = "p0_discontinuous" THEN 1 ELSE 3
           Sup == { e \in Elements : support[e] }
           Pairs == { p \in Elements \X (0..(n - 1)) : local_multipliers[p[1]][p[2]] = 1 }
       IN /\ \A e \in Elements : DOMAIN local2global_final[e] = 0..(n - 1)
          /\ \A e \in Elements \ Sup : \A l \in 0..(n - 1) :
                local2global_final[e][l] = 0 /\ local_multipliers[e][l] = 0
          /\ \A e \in Sup : \A l \in 0..(n - 1) :
                /\ local_multipliers[e][l] = 1
                /\ l > 0 => local2global_final[e][l] = local2global_final[e][l - 1] + 1
                /\ l = 0 =>
                     IF \E f \in Sup : f < e
                     THEN LET prev == CHOOSE f \in Sup :
                                         f < e /\ \A g \in Sup : g < e => g <= f
                          IN local2global_final[e][0] = local2global_final[prev][n - 1] + 1
                     ELSE local2global_final[e][0] = 0
          /\ \A g \in 0..(Cardinality(Sup) * n - 1) :
                Cardinality({ p \in Pairs : local2global_final[p[1]][p[2]] = g }) = 1
          /\ { local2global_final[p[1]][p[2]] : p \in Pairs } = 0..(Cardinality(Sup) * n - 1)

C6_Witness ==
    /\ identifier = "p1_discontinuous" /\ pc = "done"
    /\ Cardinality(Elements) = 3 /\ support = (0 :> TRUE @@ 1 :> FALSE @@ 2 :> TRUE)
    /\ local2global_final[2][2] = 5

\* C7 as claimed: the continuous construction never returns a map while an
\* element of the working list has none of its slots assigned a vertex.
C7_FailFast ==
    (Continuous /\ pc = "done") => \A e \in Processed : Assigned(e) # {}

\* C7 amended: an element of the working list that ends the first pass
\* with no slot assigned does not stop the construction; the returned map
\* holds index 0 with multiplier 0 in its three slots.
C7_InertElement ==
    /\ (Continuous /\ pc = "exhausted") =>
          \A i \in 1..(position - 1) : Assigned(elements_in_support[i]) # {}
    /\ (Continuous /\ pc = "done") =>
          \A e \in Processed : Assigned(e) = {} =>
             /\ ~support_final[e]
             /\ \A l \in 0..2 : local2global_final[e][l] = 0 /\ local_multipliers[e][l] = 0

C7_Witness ==
    /\ Continuous /\ pc = "done" /\ global_dof_count >= 1
    /\ \E e \in Processed :
          /\ Assigned(e) = {}
          /\ \A l \in 0..2 : local2global_final[e][l] = 0 /\ local_multipliers[e][l] = 0

\* C8: without boundary dofs, ensure_global_continuity has no effect: the
\* construction returns the maps that the call with the flag negated
\* returns, and the working list stays the list of support elements.
C8_ContinuityFlagInert ==
    (Continuous /\ ~include_boundary_dofs)
    => /\ pc # "exhausted"
       /\ pc = "done" =>
            LET other == ComputeP1DofMap(number_of_vertices, elements, support, FALSE,
                                         ~ensure_global_continuity)
            IN /\ other.status = "ok"
               /\ other.local2global_final = local2global_final
               /\ other.local_multipliers = local_multipliers
               /\ elements_in_support = InitialWorkList(support)

C8_Witness ==
    /\ Continuous /\ ~include_boundary_dofs /\ ensure_global_continuity /\ pc = "done"
    /\ \E v \in Vertices : \E e, f \in Incident(v) : support[e] /\ ~support[f]
    /\ \E e \in Elements : \E l \in 0..2 : local_multipliers[e][l] = 1

\* C9: at every point of the continuous construction a vertex flagged as a
\* dof is a corner of a support element, and an element of the working
\* list is a support element or shares a vertex with one.
C9_ConfinedToSupport ==
    Continuous =>
       /\ \A v \in Vertices : vertex_is_dof[v] => CornerOfSupport(v)
       /\ \A e \in Processed :
             support[e] \/ \E l \in 0..2 : CornerOfSupport(elements[e][l])

\* C10: the second pass fills a slot that was never assigned a vertex with
\* the minimum of the dof indices of the element's assigned slots, and
\* leaves its multiplier 0.
C10_MinOfAssignedSlots ==
    (Continuous /\ pc = "done")
    => \A e \in Processed : \A l \in 0..2 :
          (Assigned(e) # {} /\ l \notin Assigned(e))
          => /\ local_multipliers[e][l] = 0
             /\ \E m \in Assigned(e) :
                   /\ local2global_final[e][l] = local2global_final[e][m]
                   /\ \A k \in Assigned(e) : local2global_final[e][m] <= local2global_final[e][k]

====
